---- MODULE Spec2Model ----
(***************************************************************************)
(* The timed test-attempt lifecycle and scoring engine of the LMS testing  *)
(* portal (src/main.py): start_attempt, save_answer, submit_attempt and    *)
(* teacher_report over the attempt collection.                             *)
(*                                                                         *)
(* Encoding of Python values                                               *)
(*   dict            a function whose domain is the set of keys            *)
(*   None / value    None == <<>>, Some(v) == <<v>> for nullable fields    *)
(*   int / str / list answer values: [int |-> n], [str |-> chars],         *)
(*                   [list |-> <<n, ...>>]; a str is a sequence of         *)
(*                   one-character strings                                 *)
(*   percent         an integer number of hundredths (3333 is 33.33)       *)
(*   datetime        the value of clock when datetime.now() is called      *)
(* Spec runs every handler as one step (one event loop: the handlers hold  *)
(* no await between their store accesses).  SpecWorkers runs save_answer   *)
(* and submit_attempt on several workers, one step per store access, so    *)
(* that requests interleave between a handler's find_one and update_one.   *)
(* SpecScoring adds the malformed and unknown question ids and the         *)
(* teacher's report; SpecResolver starts attempts on every shape of test   *)
(* structure.                                                              *)
(***************************************************************************)
EXTENDS Integers, Sequences, FiniteSets, TLC

VARIABLES attempt, inflight, resp, clock

vars == <<attempt, inflight, resp, clock>>

\* ------------------------------------------------------------------ bounds
MaxAttempts == 2
MaxClock == 4

\* ------------------------------------------------------- program constants
DefaultRW == 1920
DefaultMath == 2100
PercentDigits == 2

\* ---------------------------------------------------------- Python values
None == <<>>
Some(v) == <<v>>
EmptyDict == [k \in {} |-> TRUE]

\* d[k] = v on a dict (and Mongo's $set of one key of a document)
DictSet(d, k, v) == [y \in DOMAIN d \cup {k} |-> IF y = k THEN v ELSE d[y]]

\* d.get(k, default)
DictGet(d, k, default) == IF k \in DOMAIN d THEN d[k] ELSE default

PyInt(n) == [int |-> n]
PyStr(s) == [str |-> s]
PyList(l) == [list |-> l]

Digit(n) == <<"0", "1", "2", "3", "4", "5", "6", "7", "8", "9">>[n + 1]

RECURSIVE NatToChars(_)
NatToChars(n) == IF n < 10 THEN <<Digit(n)>>
                 ELSE NatToChars(n \div 10) \o <<Digit(n % 10)>>

IntToChars(n) == IF n < 0 THEN <<"-">> \o NatToChars(-n) ELSE NatToChars(n)

RECURSIVE ListToChars(_)
ListToChars(l) ==
    IF l = <<>> THEN <<>>
    ELSE IF Len(l) = 1 THEN IntToChars(l[1])
    ELSE IntToChars(l[1]) \o <<",", " ">> \o ListToChars(Tail(l))

\* str(v)
Str(v) ==
    IF "int" \in DOMAIN v THEN IntToChars(v.int)
    ELSE IF "str" \in DOMAIN v THEN v.str
    ELSE <<"[">> \o ListToChars(v.list) \o <<"]">>

Whitespace == {" ", "\t", "\n"}

RECURSIVE LStrip(_)
LStrip(s) == IF s # <<>> /\ s[1] \in Whitespace THEN LStrip(Tail(s)) ELSE s

RECURSIVE RStrip(_)
RStrip(s) ==
    IF s # <<>> /\ s[Len(s)] \in Whitespace
    THEN RStrip(SubSeq(s, 1, Len(s) - 1))
    ELSE s

\* s.strip()
Strip(s) == RStrip(LStrip(s))

\* round(num / den, 0) for num >= 0, den > 0: to the nearest integer, a tie
\* to the even one.  Python rounds the binary float; the two agree on every
\* quotient that up to 5 scored answers and up to 3 attempts produce.
RoundHalfEven(num, den) ==
    LET q == num \div den
        r == num % den
    IN  IF 2 * r > den \/ (2 * r = den /\ q % 2 = 1) THEN q + 1 ELSE q

Pow10(n) == IF n = 2 THEN 100 ELSE IF n = 1 THEN 10 ELSE 1

\* round((correct / total) * 100, 2), in hundredths
Percent(correct, total) ==
    RoundHalfEven(correct * 100 * Pow10(PercentDigits), total)

\* ------------------------------------------------------------ collections
Students == {"sA", "sB"}

\* strings bson's ObjectId() accepts: 24 hexadecimal digits
WellFormedOids == {"t1", "t2", "t3", "t4", "t9", "q1", "q2", "q9"}

\* ObjectId(s) raises InvalidId unless s is well formed
ObjectIdRaises(s) == s \notin WellFormedOids

Module(d) == [duration |-> d]
NoDuration == [label |-> "m"]

\* the test collection (read only here); _id -> document
test ==
    [t1 |-> [title |-> "defaults"],
     t2 |-> [title |-> "full",
             structure |-> [sections |->
                 [RW |-> [modules |-> <<Module(1000), Module(1100)>>],
                  Math |-> [modules |-> <<Module(1200), Module(1300)>>]]]],
     t3 |-> [title |-> "no duration",
             structure |-> [sections |->
                 [RW |-> [modules |-> <<Module(1000), NoDuration>>],
                  Math |-> [modules |-> <<NoDuration, Module(1300)>>]]]],
     t4 |-> [title |-> "one module",
             structure |-> [sections |->
                 [RW |-> [modules |-> <<Module(1000), Module(1100)>>],
                  Math |-> [modules |-> <<Module(1200)>>]]]]]

\* the question collection (read only here); _id -> document
question ==
    [q1 |-> [correct |-> PyInt(2)],
     q2 |-> [correct |-> PyStr(<<"[", "0", ",", " ", "1", "]">>)]]

TestIdInputs == {"t1", "t2", "t3", "t4", "t9", "bad"}
QidInputs == {"q1", "q2", "q9", "bad"}

\* request bodies of save_answer: (answer, time_spent)
Payloads ==
    {[answer |-> PyStr(<<" ", "2">>), time_spent |-> 10],
     [answer |-> PyList(<<0, 1>>), time_spent |-> 30]}

\* attempt ids: the n-th inserted attempt has _id n; 0 stands for a string
\* that is no ObjectId
AttemptIdInputs == 0 .. MaxAttempts

\* --------------------------------------------------------------- responses
\* the last response sent: the handler, its status code and its body
Ok(op, body) == [op |-> op, code |-> 200, body |-> body]
Fail(op, code) == [op |-> op, code |-> code, body |-> None]

Workers == {"w1", "w2"}

Idle == [op |-> "idle"]

Init ==
    /\ attempt = <<>>
    /\ inflight = [w \in Workers |-> Idle]
    /\ resp = Fail("none", 0)
    /\ clock = 1

\* ------------------------------------------------------ Structure Resolver
\* structure["sections"][sec]["modules"][i].get("duration", default);
\* a missing key or index raises
TimerRaises(structure, sec, i) ==
    \/ "sections" \notin DOMAIN structure
    \/ sec \notin DOMAIN structure.sections
    \/ "modules" \notin DOMAIN structure.sections[sec]
    \/ i \notin DOMAIN structure.sections[sec].modules

Timer(structure, sec, i, default) ==
    DictGet(structure.sections[sec].modules[i], "duration", default)

DefaultStructure ==
    [sections |->
        [RW |-> [modules |-> <<Module(DefaultRW), Module(DefaultRW)>>],
         Math |-> [modules |-> <<Module(DefaultMath), Module(DefaultMath)>>]]]

TimerKeys == {<<"RW", 1>>, <<"RW", 2>>, <<"Math", 1>>, <<"Math", 2>>}

ResolveRaises(test_doc) ==
    LET structure == DictGet(test_doc, "structure", DefaultStructure)
    IN  \E k \in TimerKeys : TimerRaises(structure, k[1], k[2])

ResolveTimers(test_doc) ==
    LET structure == DictGet(test_doc, "structure", DefaultStructure)
    IN  ("RW-1" :> Timer(structure, "RW", 1, DefaultRW))
        @@ ("RW-2" :> Timer(structure, "RW", 2, DefaultRW))
        @@ ("Math-1" :> Timer(structure, "Math", 1, DefaultMath))
        @@ ("Math-2" :> Timer(structure, "Math", 2, DefaultMath))

\* Attempt(student_id=..., test_id=..., timers=...): the other fields take
\* the defaults of the schema
NewAttempt(student_id, test_id, timers) ==
    [student_id |-> student_id,
     test_id |-> test_id,
     status |-> "in_progress",
     started_at |-> None,
     submitted_at |-> None,
     timers |-> timers,
     answers |-> EmptyDict,
     score |-> None,
     time_spent |-> EmptyDict]

\* create_document("attempt", attempt): the document is inserted as it is
\* and gets the next _id
CreateDocument(coll, doc) == Append(coll, doc)

StartAttempt(u, test_id) ==
    /\ Len(attempt) < MaxAttempts
    /\ UNCHANGED <<inflight, clock>>
    /\ IF ObjectIdRaises(test_id)
       THEN /\ resp' = Fail("start", 500)
            /\ UNCHANGED attempt
       ELSE IF test_id \notin DOMAIN test
       THEN /\ resp' = Fail("start", 404)
            /\ UNCHANGED attempt
       ELSE IF ResolveRaises(test[test_id])
       THEN /\ resp' = Fail("start", 500)
            /\ UNCHANGED attempt
       ELSE LET timers == ResolveTimers(test[test_id])
            IN  /\ attempt' = CreateDocument(attempt,
                                  NewAttempt(u, test_id, timers))
                /\ resp' = Ok("start",
                              [attempt_id |-> Len(attempt) + 1,
                               timers |-> timers])

\* ------------------------------------------------------------ store access
\* the lookup without its student_id filter
FindAttemptById(attempt_id, user_id) ==
    IF attempt_id \in DOMAIN attempt
    THEN Some(attempt[attempt_id])
    ELSE None

\* db.attempt.find_one({"_id": ObjectId(attempt_id), "student_id": user_id})
FindOwnedAttempt(attempt_id, user_id) ==
    IF attempt_id \in DOMAIN attempt
       /\ attempt[attempt_id].student_id = user_id
    THEN Some(attempt[attempt_id])
    ELSE None

\* ObjectId(attempt_id) raises InvalidId
AttemptIdRaises(attempt_id) == attempt_id = 0

\* a $set that replaces the embedded document instead of one key of it
MongoSetWhole(doc, path, v) ==
    IF Len(path) = 1 THEN DictSet(doc, path[1], v)
    ELSE DictSet(doc, path[1], DictSet(EmptyDict, path[2], v))

\* $set of one dotted path of a document
RECURSIVE MongoSet(_, _, _)
MongoSet(doc, path, v) ==
    IF Len(path) = 1 THEN DictSet(doc, path[1], v)
    ELSE DictSet(doc, path[1],
                 MongoSet(DictGet(doc, path[1], EmptyDict), Tail(path), v))

\* db.attempt.update_one({"_id": oid}, {"$set": ...}) applied to the stored
\* document, atomically
UpdateOne(coll, oid, Set(_)) ==
    [n \in DOMAIN coll |-> IF n = oid THEN Set(coll[n]) ELSE coll[n]]

\* ------------------------------------------------------------- save_answer
\* a save_answer that reopens the attempt it edits
AnswerSetReopen(doc, qid, answer, time_spent, now) ==
    MongoSet(MongoSet(MongoSet(MongoSet(doc,
        <<"answers", qid>>, answer),
        <<"time_spent", qid>>, time_spent),
        <<"updated_at">>, Some(now)),
        <<"status">>, "in_progress")

\* a save_answer that $sets the whole answers and time_spent mappings
AnswerSetWholeMap(doc, qid, answer, time_spent, now) ==
    MongoSet(MongoSet(MongoSet(doc,
        <<"answers">>, DictSet(EmptyDict, qid, answer)),
        <<"time_spent">>, DictSet(EmptyDict, qid, time_spent)),
        <<"updated_at">>, Some(now))

\* the $set of save_answer
AnswerSet(doc, qid, answer, time_spent, now) ==
    MongoSet(MongoSet(MongoSet(doc,
        <<"answers", qid>>, answer),
        <<"time_spent", qid>>, time_spent),
        <<"updated_at">>, Some(now))

SaveAnswer(u, attempt_id, qid, p) ==
    LET Set(doc) == AnswerSet(doc, qid, p.answer, p.time_spent, clock)
    IN  /\ clock < MaxClock
        /\ UNCHANGED inflight
        /\ IF AttemptIdRaises(attempt_id)
           THEN /\ resp' = Fail("answer", 500)
                /\ UNCHANGED <<attempt, clock>>
           ELSE IF FindOwnedAttempt(attempt_id, u) = None
           THEN /\ resp' = Fail("answer", 404)
                /\ UNCHANGED <<attempt, clock>>
           ELSE /\ attempt' = UpdateOne(attempt, attempt_id, Set)
                /\ clock' = clock + 1
                /\ resp' = Ok("answer", [status |-> "saved"])

\* save_answer on worker w, up to its find_one
SaveAnswerFind(w, u, attempt_id, qid, p) ==
    /\ inflight[w].op = "idle"
    /\ UNCHANGED <<attempt, clock>>
    /\ IF AttemptIdRaises(attempt_id)
       THEN /\ resp' = Fail("answer", 500)
            /\ UNCHANGED inflight
       ELSE IF FindOwnedAttempt(attempt_id, u) = None
       THEN /\ resp' = Fail("answer", 404)
            /\ UNCHANGED inflight
       ELSE /\ inflight' = [inflight EXCEPT ![w] =
                               [op |-> "answer", user |-> u,
                                attempt_id |-> attempt_id, qid |-> qid,
                                answer |-> p.answer,
                                time_spent |-> p.time_spent,
                                att |-> FindOwnedAttempt(attempt_id, u)[1]]]
            /\ UNCHANGED resp

\* save_answer on worker w, from its update_one to its return
SaveAnswerUpdate(w) ==
    LET r == inflight[w]
        Set(doc) == AnswerSet(doc, r.qid, r.answer, r.time_spent, clock)
    IN  /\ r.op = "answer"
        /\ clock < MaxClock
        /\ attempt' = UpdateOne(attempt, r.attempt_id, Set)
        /\ clock' = clock + 1
        /\ inflight' = [inflight EXCEPT ![w] = Idle]
        /\ resp' = Ok("answer", [status |-> "saved"])

\* ---------------------------------------------------------- Scoring Engine
\* the loop of submit_attempt over the items of answers left in keys
RECURSIVE ScoreLoop(_, _, _, _)
ScoreLoop(answers, keys, total, correct) ==
    IF keys = {} THEN [total |-> total, correct |-> correct]
    ELSE LET qid == CHOOSE k \in keys : TRUE
             rest == keys \ {qid}
         IN  IF qid \notin DOMAIN question
             THEN ScoreLoop(answers, rest, total, correct)
             ELSE IF Strip(Str(answers[qid]))
                     = Strip(Str(question[qid].correct))
             THEN ScoreLoop(answers, rest, total + 1, correct + 1)
             ELSE ScoreLoop(answers, rest, total + 1, correct)

\* att.get("answers") or {}
AnswersOf(att) == DictGet(att, "answers", EmptyDict)

\* ObjectId(qid) raises for some answered qid
ScoreRaises(att) == \E qid \in DOMAIN AnswersOf(att) : ObjectIdRaises(qid)

Score(att) ==
    LET c == ScoreLoop(AnswersOf(att), DOMAIN AnswersOf(att), 0, 0)
    IN  [raw |-> c.correct,
         total |-> c.total,
         percent |-> IF c.total # 0 THEN Percent(c.correct, c.total) ELSE 0]

\* ---------------------------------------------------------- submit_attempt
\* a submit that stores the score and leaves the status
SubmitSetScoreOnly(doc, score, now) ==
    MongoSet(MongoSet(doc,
        <<"submitted_at">>, Some(now)),
        <<"score">>, Some(score))

\* the $set of submit_attempt
SubmitSet(doc, score, now) ==
    MongoSet(MongoSet(MongoSet(doc,
        <<"status">>, "submitted"),
        <<"submitted_at">>, Some(now)),
        <<"score">>, Some(score))

SubmitAttempt(u, attempt_id) ==
    LET att == FindOwnedAttempt(attempt_id, u)
        Set(doc) == SubmitSet(doc, Score(att[1]), clock)
    IN  /\ clock < MaxClock
        /\ UNCHANGED inflight
        /\ IF AttemptIdRaises(attempt_id)
           THEN /\ resp' = Fail("submit", 500)
                /\ UNCHANGED <<attempt, clock>>
           ELSE IF att = None
           THEN /\ resp' = Fail("submit", 404)
                /\ UNCHANGED <<attempt, clock>>
           ELSE IF ScoreRaises(att[1])
           THEN /\ resp' = Fail("submit", 500)
                /\ UNCHANGED <<attempt, clock>>
           ELSE /\ attempt' = UpdateOne(attempt, attempt_id, Set)
                /\ clock' = clock + 1
                /\ resp' = Ok("submit", [score |-> Score(att[1])])

\* submit_attempt on worker w, up to its find_one
SubmitFind(w, u, attempt_id) ==
    /\ inflight[w].op = "idle"
    /\ UNCHANGED <<attempt, clock>>
    /\ IF AttemptIdRaises(attempt_id)
       THEN /\ resp' = Fail("submit", 500)
            /\ UNCHANGED inflight
       ELSE IF FindOwnedAttempt(attempt_id, u) = None
       THEN /\ resp' = Fail("submit", 404)
            /\ UNCHANGED inflight
       ELSE /\ inflight' = [inflight EXCEPT ![w] =
                               [op |-> "submit", user |-> u,
                                attempt_id |-> attempt_id,
                                att |-> FindOwnedAttempt(attempt_id, u)[1]]]
            /\ UNCHANGED resp

\* submit_attempt on worker w, from its scoring loop to its return
SubmitScore(w) ==
    LET r == inflight[w]
        Set(doc) == SubmitSet(doc, Score(r.att), clock)
    IN  /\ r.op = "submit"
        /\ clock < MaxClock
        /\ inflight' = [inflight EXCEPT ![w] = Idle]
        /\ IF ScoreRaises(r.att)
           THEN /\ resp' = Fail("submit", 500)
                /\ UNCHANGED <<attempt, clock>>
           ELSE /\ attempt' = UpdateOne(attempt, r.attempt_id, Set)
                /\ clock' = clock + 1
                /\ resp' = Ok("submit", [score |-> Score(r.att)])

\* ----------------------------------------------------- Reporting Aggregator
\* list(db.attempt.find({"student_id": student_id})), as the _ids
AttemptsOf(student_id) ==
    {n \in DOMAIN attempt : attempt[n].student_id = student_id}

\* a.get("score", {}): the default only when the key is absent
ScoreOrEmpty(a) == DictGet(a, "score", Some(EmptyDict))

\* a.get("score", {}).get("percent", 0) raises AttributeError on None
PercentRaises(a) == ScoreOrEmpty(a) = None

PercentOf(a) == DictGet(ScoreOrEmpty(a)[1], "percent", 0)

RECURSIVE SumPercent(_)
SumPercent(ids) ==
    IF ids = {} THEN 0
    ELSE LET n == CHOOSE k \in ids : TRUE
         IN  PercentOf(attempt[n]) + SumPercent(ids \ {n})

ReportRaises(student_id) ==
    \E n \in AttemptsOf(student_id) : PercentRaises(attempt[n])

Summary(student_id) ==
    LET ids == AttemptsOf(student_id)
    IN  [count |-> Cardinality(ids),
         average_percent |->
             IF ids # {}
             THEN RoundHalfEven(SumPercent(ids), Cardinality(ids))
             ELSE 0]

TeacherReport(student_id) ==
    /\ UNCHANGED <<attempt, inflight, clock>>
    /\ IF ReportRaises(student_id)
       THEN resp' = Fail("report", 500)
       ELSE resp' = Ok("report",
                       [summary |-> Summary(student_id),
                        attempts |-> AttemptsOf(student_id)])

\* ---------------------------------------------------------- specifications
\* the lifecycle of attempts on one test: q1 answered right or wrong, q2
\* answered right
LifecycleTests == {"t2", "t9", "bad"}
LifecycleAnswers ==
    {<<"q1", [answer |-> PyStr(<<" ", "2">>), time_spent |-> 10]>>,
     <<"q1", [answer |-> PyList(<<0, 1>>), time_spent |-> 30]>>,
     <<"q2", [answer |-> PyList(<<0, 1>>), time_spent |-> 30]>>}

Next ==
    \/ \E u \in Students, t \in LifecycleTests : StartAttempt(u, t)
    \/ \E u \in Students, a \in AttemptIdInputs, x \in LifecycleAnswers :
          SaveAnswer(u, a, x[1], x[2])
    \/ \E u \in Students, a \in AttemptIdInputs : SubmitAttempt(u, a)

Spec == Init /\ [][Next]_vars

\* the lifecycle with every kind of question id (of the bank, unknown,
\* malformed) and the teacher's report
NextScoring ==
    \/ \E u \in Students : StartAttempt(u, "t2")
    \/ \E u \in Students, a \in AttemptIdInputs, q \in QidInputs,
          p \in Payloads : SaveAnswer(u, a, q, p)
    \/ \E u \in Students, a \in AttemptIdInputs : SubmitAttempt(u, a)
    \/ \E s \in Students : TeacherReport(s)

SpecScoring == Init /\ [][NextScoring]_vars

\* one attempt of sA, raced by requests of both students on both workers
WorkerQids == {"q1", "q2"}

NextWorkers ==
    \/ attempt = <<>> /\ StartAttempt("sA", "t2")
    \/ \E w \in Workers, u \in Students, a \in AttemptIdInputs,
          q \in WorkerQids, p \in Payloads : SaveAnswerFind(w, u, a, q, p)
    \/ \E w \in Workers : SaveAnswerUpdate(w)
    \/ \E w \in Workers, u \in Students, a \in AttemptIdInputs :
          SubmitFind(w, u, a)
    \/ \E w \in Workers : SubmitScore(w)

SpecWorkers == Init /\ [][NextWorkers]_vars

NextResolver ==
    \/ \E u \in Students, t \in TestIdInputs : StartAttempt(u, t)
    \/ \E s \in Students : TeacherReport(s)

SpecResolver == Init /\ [][NextResolver]_vars

\* ------------------------------------------------------------------ claims
Owner(a) == attempt[a].student_id

\* what a request may not change in an attempt it does not own
Guarded(a) ==
    <<attempt[a].answers, attempt[a].time_spent, attempt[a].status,
      attempt[a].score>>

\* C1: a save_answer or submit_attempt request of a student who does not own
\* the attempt is answered 404 and leaves the attempt's answers, time_spent,
\* status and score as they were.  (Read per step: a step that is not such
\* a refusal is no request of a non-owner u on attempt a.)
C1_NonOwnerRejected ==
    [][\A a \in DOMAIN attempt : \A u \in Students \ {Owner(a)} :
         /\ resp'.op = "answer"
               => \/ resp' = Fail("answer", 404) /\ Guarded(a)' = Guarded(a)
                  \/ \A q \in QidInputs, p \in Payloads :
                        ~SaveAnswer(u, a, q, p)
         /\ resp'.op = "submit"
               => \/ resp' = Fail("submit", 404) /\ Guarded(a)' = Guarded(a)
                  \/ ~SubmitAttempt(u, a)
      ]_vars

\* every attempt id names an attempt, so a 404 comes from the student_id
\* filter alone; the refused request met an attempt with answers and a score
C1_Witness ==
    /\ Len(attempt) = MaxAttempts
    /\ resp \in {Fail("answer", 404), Fail("submit", 404)}
    /\ \E a \in DOMAIN attempt :
          attempt[a].answers # EmptyDict /\ attempt[a].score # None

\* C2: once an attempt is submitted, no step changes its answers or its
\* time_spent.
C2_FrozenAfterSubmit ==
    [][\A a \in DOMAIN attempt :
         attempt[a].status = "submitted"
             => /\ attempt'[a].answers = attempt[a].answers
                /\ attempt'[a].time_spent = attempt[a].time_spent
      ]_vars

\* C3: an attempt has a score exactly when its status is submitted.
C3_ScoreIffSubmitted ==
    \A a \in DOMAIN attempt :
        attempt[a].score # None <=> attempt[a].status = "submitted"

C3_Witness ==
    \E a, b \in DOMAIN attempt :
        /\ attempt[a].status = "submitted" /\ attempt[a].score # None
        /\ attempt[b].status = "in_progress" /\ attempt[b].score = None
        /\ attempt[b].answers # EmptyDict

\* C4: an attempt starts in_progress, its status changes only from
\* in_progress to submitted, and a submitted attempt stays submitted.
C4_StatusForward ==
    [][/\ \A a \in DOMAIN attempt :
            /\ a \in DOMAIN attempt'
            /\ attempt[a].status = "submitted"
                   => attempt'[a].status = "submitted"
            /\ attempt'[a].status # attempt[a].status
                   => /\ attempt[a].status = "in_progress"
                      /\ attempt'[a].status = "submitted"
       /\ \A a \in DOMAIN attempt' \ DOMAIN attempt :
            attempt'[a].status = "in_progress"
      ]_vars

\* a submitted attempt that was answered after its submission
C4_Witness ==
    \E a \in DOMAIN attempt :
        /\ attempt[a].status = "submitted"
        /\ "updated_at" \in DOMAIN attempt[a]
        /\ attempt[a].updated_at[1] > attempt[a].submitted_at[1]

\* C5: a stored score never changes.
C5_ScoreImmutable ==
    [][\A a \in DOMAIN attempt :
         attempt[a].score # None => attempt'[a].score = attempt[a].score
      ]_vars

\* the score the scoring contract gives to an answers mapping
Trimmed(v) == Strip(Str(v))

Resolved(answers) == {q \in DOMAIN answers : q \in DOMAIN question}

Right(answers) ==
    {q \in Resolved(answers) :
        Trimmed(answers[q]) = Trimmed(question[q].correct)}

\* C6: submit_attempt of the owner succeeds on every answers mapping and
\* returns total = the answered ids that resolve to a question, raw = those
\* answered right, percent = raw / total * 100 (0 when total is 0).
C6_SubmitScores ==
    [][\A a \in DOMAIN attempt :
         SubmitAttempt(Owner(a), a)
             => LET answers == attempt[a].answers
                    total == Cardinality(Resolved(answers))
                    raw == Cardinality(Right(answers))
                IN  /\ resp'.code = 200
                    /\ resp'.body.score.total = total
                    /\ resp'.body.score.raw = raw
                    /\ resp'.body.score.percent * total
                           = raw * 100 * Pow10(PercentDigits)
      ]_vars

\* the timer the resolver contract gives to module i of section sec
ContractTimer(test_doc, sec, i, default) ==
    IF /\ "structure" \in DOMAIN test_doc
       /\ ~TimerRaises(test_doc.structure, sec, i)
       /\ "duration" \in DOMAIN test_doc.structure.sections[sec].modules[i]
    THEN test_doc.structure.sections[sec].modules[i].duration
    ELSE default

ContractTimers(test_doc) ==
    ("RW-1" :> ContractTimer(test_doc, "RW", 1, DefaultRW))
    @@ ("RW-2" :> ContractTimer(test_doc, "RW", 2, DefaultRW))
    @@ ("Math-1" :> ContractTimer(test_doc, "Math", 1, DefaultMath))
    @@ ("Math-2" :> ContractTimer(test_doc, "Math", 2, DefaultMath))

\* C7: start_attempt on an existing test never fails, and its timers are the
\* configured durations, or the defaults where a module or its duration is
\* missing.
C7_ResolverTotal ==
    [][\A u \in Students, t \in DOMAIN test :
         StartAttempt(u, t)
             => /\ resp'.code = 200
                /\ resp'.body.timers = ContractTimers(test[t])
      ]_vars

\* the percent an attempt contributes to the report: 0 without a score
ContractPercent(a) ==
    IF a.score = None THEN 0 ELSE a.score[1].percent

RECURSIVE ContractSum(_)
ContractSum(ids) ==
    IF ids = {} THEN 0
    ELSE LET n == CHOOSE k \in ids : TRUE
         IN  ContractPercent(attempt[n]) + ContractSum(ids \ {n})

\* C8: teacher_report never fails; count is the number of the student's
\* attempts and average_percent the mean of their percents, an attempt
\* without a score counting 0.
C8_ReportMean ==
    [][\A s \in Students :
         TeacherReport(s)
             => LET ids == AttemptsOf(s)
                IN  /\ resp'.code = 200
                    /\ resp'.body.summary.count = Cardinality(ids)
                    /\ resp'.body.summary.average_percent * Cardinality(ids)
                           = ContractSum(ids)
      ]_vars

\* C9: the update of a save_answer stores its own entries and keeps every
\* entry of another question id, also one written by a concurrent request
\* after this request's lookup.
C9_NoLostAnswer ==
    [][\A w \in Workers :
         inflight[w].op = "answer" /\ inflight'[w].op = "idle"
             => LET r == inflight[w]
                    old == attempt[r.attempt_id]
                    new == attempt'[r.attempt_id]
                IN  /\ r.qid \in DOMAIN new.answers
                    /\ new.answers[r.qid] = r.answer
                    /\ new.time_spent[r.qid] = r.time_spent
                    /\ \A q \in DOMAIN old.answers \ {r.qid} :
                          /\ q \in DOMAIN new.answers
                          /\ new.answers[q] = old.answers[q]
                          /\ new.time_spent[q] = old.time_spent[q]
      ]_vars

\* a request between its lookup and its update, while the attempt already
\* holds another question's answer that was written after the lookup
C9_Witness ==
    \E w \in Workers :
        /\ inflight[w].op = "answer"
        /\ \E q \in DOMAIN attempt[inflight[w].attempt_id].answers :
              /\ q # inflight[w].qid
              /\ q \notin DOMAIN inflight[w].att.answers

\* the keys of an attempt a save_answer may write
AnswerKeys == {"answers", "time_spent", "updated_at"}

\* C10: a save_answer changes, in one attempt, only the answers and
\* time_spent entries of one question id and updated_at; a refused one
\* changes nothing.
C10_AnswerFrame ==
    [][resp'.op = "answer"
         => /\ DOMAIN attempt' = DOMAIN attempt
            /\ resp'.code # 200 => attempt' = attempt
            /\ \A a, b \in DOMAIN attempt :
                 attempt'[a] # attempt[a] /\ attempt'[b] # attempt[b]
                     => a = b
            /\ \A a \in DOMAIN attempt : \E q \in QidInputs :
                 /\ DOMAIN attempt'[a] \ {"updated_at"}
                        = DOMAIN attempt[a] \ {"updated_at"}
                 /\ \A k \in DOMAIN attempt[a] \ AnswerKeys :
                        attempt'[a][k] = attempt[a][k]
                 /\ \A k \in {"answers", "time_spent"} :
                        /\ DOMAIN attempt'[a][k] \subseteq
                               DOMAIN attempt[a][k] \cup {q}
                        /\ \A x \in DOMAIN attempt[a][k] \ {q} :
                              /\ x \in DOMAIN attempt'[a][k]
                              /\ attempt'[a][k][x] = attempt[a][k][x]
      ]_vars

\* a saved answer on a submitted attempt that holds another question's entry
C10_Witness ==
    /\ resp = Ok("answer", [status |-> "saved"])
    /\ \E a \in DOMAIN attempt :
         /\ Cardinality(DOMAIN attempt[a].answers) >= 2
         /\ attempt[a].status = "submitted"
         /\ attempt[a].updated_at = Some(clock - 1)

====
